---- MODULE Spec2Model ----
(***************************************************************************)
(* One-dimensional offline bin packing: the Container, the workload        *)
(* Generator, the Next-Fit and First-Fit solvers and the benchmark loop of *)
(* main (src/src/main.rs).                                                 *)
(*                                                                         *)
(* All sizes are u32 in the source.  The model keeps unsigned arithmetic   *)
(* of a fixed width, with the word reduced from 2^32 to Modulus values so  *)
(* that the whole range can be enumerated: an addition whose result        *)
(* reaches Modulus overflows.  Rust panics on overflow when the build has  *)
(* overflow checks (the dev profile) and wraps when it has not (the        *)
(* release profile); overflow_checks is the build's choice.                *)
(***************************************************************************)
EXTENDS Integers, Sequences, FiniteSets

\* Number of values of the unsigned word (2^32 in the source, reduced).
Modulus == 16

\* Longest input handed to a solver.
MaxItems == 3

\* Longest input handed to a solver when every item fits an empty container.
MaxFittingItems == 4

\* Largest item size of the inputs handed to a solver.
MaxSize == 9

\* Largest size field and largest item_limit of the Settings handed to the
\* Generator.
MaxGenSize == 3
MaxItemLimit == 3

\* The benchmark runs tried: the longest solvers and settings lists, the
\* largest iterations, the largest size field and item_limit of a scenario,
\* and the largest elapsed time of a solve in microseconds.
MaxSolvers == 2
MaxScenarios == 1
MaxIterations == 2
MaxRunSize == 3
MaxRunLimit == 3
MaxElapsed == 1

U32 == 0 .. (Modulus - 1)

\* The item sizes and the container sizes the solve calls are tried on: the
\* capacities 5 and 10 of the specification's scenarios and half the word,
\* the smallest capacity at which two items that each fit can overflow.
ItemSizes == 0 .. MaxSize
ContainerSizes == {5, 10, Modulus \div 2}

VARIABLES
    overflow_checks,   \* TRUE: overflow panics, FALSE: overflow wraps
    container_size,    \* Settings.container_size of the solvers
    input,             \* the Vec<Item> handed to solve
    nf,                \* the SolverNextFit::solve call
    ff,                \* the SolverFirstFit::solve call
    settings,          \* Generator.settings
    gen,               \* the Generator::generate call
    program_input,     \* main: the ProgramInput read from input.json
    results,           \* main: the Vec<ProblemResult>
    pc,                \* main: where the run is
    settings_n,        \* main: index of the outer loop (0-based)
    iteration,         \* main: index of the iterations loop (0-based)
    solver_n,          \* main: index of the solvers loop (0-based)
    generator_results, \* main: the GeneratorResults of the iteration
    output,            \* main: the result payload printed, <<>> when none is
    history            \* per result cell, the samples folded into it so far

solveVars == <<container_size, input, nf, ff>>
genVars == <<settings, gen>>
mainVars == <<program_input, results, pc, settings_n, iteration, solver_n,
              generator_results, output, history>>
vars == <<overflow_checks, solveVars, genVars, mainVars>>

\* The parts of the state a specification does not use.
SolveIdle == container_size = 0 /\ input = <<>> /\ nf = <<>> /\ ff = <<>>
GenIdle == settings = <<>> /\ gen = <<>>
MainIdle ==
    /\ program_input = <<>> /\ results = <<>> /\ pc = "none"
    /\ settings_n = 0 /\ iteration = 0 /\ solver_n = 0
    /\ generator_results = <<>> /\ output = <<>> /\ history = <<>>

------------------------------------------------------------------------------
\* Item { size }
Item(s) == [size |-> s]

\* Container::new
ContainerNew(size) == [size |-> size, total |-> 0, items |-> <<>>]

\* Container::add with the update of the running total left out.
ContainerAddKeepsTotal(c, item, checks) ==
    LET sum == c.total + item.size
    IN  IF sum >= Modulus /\ checks
        THEN [outcome |-> "overflow", container |-> c]
        ELSE IF (sum % Modulus) > c.size
        THEN [outcome |-> "rejected", container |-> c]
        ELSE [outcome |-> "placed",
              container |-> [c EXCEPT !.items = Append(@, item)]]

\* Container::add.  outcome is "placed" (None returned), "rejected"
\* (Some(item) returned, the container unchanged) or "overflow" (the
\* addition self.total + cont.size panicked).
ContainerAdd(c, item, checks) ==
    LET sum == c.total + item.size
    IN  IF sum >= Modulus /\ checks
        THEN [outcome |-> "overflow", container |-> c]
        ELSE IF (sum % Modulus) > c.size
        THEN [outcome |-> "rejected", container |-> c]
        ELSE [outcome |-> "placed",
              container |-> [c EXCEPT !.total = sum % Modulus,
                                      !.items = Append(@, item)]]

\* Solver::new_container
NewContainer(size) == ContainerNew(size)

\* The tail of both solve loops: the item was rejected by every container
\* tried; a new container is made, the item added to it, and the container
\* pushed.  An item the new container rejects is the panic
\* "An item won't fit into an empty container!".
OpenContainer(item, size, checks) ==
    ContainerAdd(NewContainer(size), item, checks)

\* The state of a solve call at its entry: results holds first_container.
NextFitStart(size) ==
    [status |-> "running", pos |-> 0,
     results |-> <<NewContainer(size)>>, last_index |-> 1]

\* The Next-Fit loop body pushing the new container without the rejected
\* item in it.
NextFitPlaceLosesItem(s, item, size, checks) ==
    LET first == ContainerAdd(s.results[s.last_index], item, checks)
        fresh == OpenContainer(item, size, checks)
    IN  IF first.outcome = "overflow"
        THEN [s EXCEPT !.status = "panic_overflow"]
        ELSE IF first.outcome = "placed"
        THEN [s EXCEPT !.results[s.last_index] = first.container,
                       !.pos = @ + 1]
        ELSE IF fresh.outcome = "placed"
        THEN [s EXCEPT !.results = Append(@, NewContainer(size)),
                       !.last_index = @ + 1,
                       !.pos = @ + 1]
        ELSE [s EXCEPT !.status = "panic_unfit"]

\* One pass of the body of `for item in input` of SolverNextFit::solve.
\* last_index is 1-based here (0-based in the source).
NextFitPlace(s, item, size, checks) ==
    LET first == ContainerAdd(s.results[s.last_index], item, checks)
        fresh == OpenContainer(item, size, checks)
    IN  IF first.outcome = "overflow"
        THEN [s EXCEPT !.status = "panic_overflow"]
        ELSE IF first.outcome = "placed"
        THEN [s EXCEPT !.results[s.last_index] = first.container,
                       !.pos = @ + 1]
        ELSE IF fresh.outcome = "placed"
        THEN [s EXCEPT !.results = Append(@, fresh.container),
                       !.last_index = @ + 1,
                       !.pos = @ + 1]
        ELSE [s EXCEPT !.status = "panic_unfit"]

FirstFitStart(size) ==
    [status |-> "running", pos |-> 0,
     results |-> <<NewContainer(size)>>, containers_count |-> 1]

\* The scan `for index in 0..containers_count` of SolverFirstFit::solve from
\* container index on: the index of the container that took the item, 0 when
\* every container rejected it, -1 when an addition overflowed.
RECURSIVE FirstFitScan(_, _, _, _, _)
FirstFitScan(containers, count, index, item, checks) ==
    IF index > count
    THEN 0
    ELSE LET r == ContainerAdd(containers[index], item, checks)
         IN  IF r.outcome = "overflow" THEN -1
             ELSE IF r.outcome = "placed" THEN index
             ELSE FirstFitScan(containers, count, index + 1, item, checks)

\* One pass of the body of `for item in input` of SolverFirstFit::solve.
FirstFitPlace(s, item, size, checks) ==
    LET hit   == FirstFitScan(s.results, s.containers_count, 1, item, checks)
        fresh == OpenContainer(item, size, checks)
    IN  IF hit = -1
        THEN [s EXCEPT !.status = "panic_overflow"]
        ELSE IF hit > 0
        THEN [s EXCEPT !.results[hit] =
                           ContainerAdd(s.results[hit], item, checks).container,
                       !.pos = @ + 1]
        ELSE IF fresh.outcome = "placed"
        THEN [s EXCEPT !.results = Append(@, fresh.container),
                       !.containers_count = @ + 1,
                       !.pos = @ + 1]
        ELSE [s EXCEPT !.status = "panic_unfit"]

------------------------------------------------------------------------------
\* The solve calls, item by item.

RECURSIVE SeqsUpTo(_, _)
SeqsUpTo(S, n) ==
    IF n = 0 THEN {<<>>}
    ELSE LET shorter == SeqsUpTo(S, n - 1)
         IN  shorter \cup {Append(q, x) : q \in {r \in shorter : Len(r) = n - 1}, x \in S}

InitSolve ==
    /\ overflow_checks \in BOOLEAN
    /\ container_size \in ContainerSizes
    /\ input \in {[i \in DOMAIN q |-> Item(q[i])] : q \in SeqsUpTo(ItemSizes, MaxItems)}
    /\ nf = NextFitStart(container_size)
    /\ ff = FirstFitStart(container_size)
    /\ GenIdle
    /\ MainIdle

NextFitStep ==
    /\ nf.status = "running"
    /\ nf.pos < Len(input)
    /\ nf' = NextFitPlace(nf, input[nf.pos + 1], container_size, overflow_checks)
    /\ UNCHANGED <<overflow_checks, container_size, input, ff, genVars, mainVars>>

NextFitReturn ==
    /\ nf.status = "running"
    /\ nf.pos = Len(input)
    /\ nf' = [nf EXCEPT !.status = "returned"]
    /\ UNCHANGED <<overflow_checks, container_size, input, ff, genVars, mainVars>>

FirstFitStep ==
    /\ nf.status # "running"
    /\ ff.status = "running"
    /\ ff.pos < Len(input)
    /\ ff' = FirstFitPlace(ff, input[ff.pos + 1], container_size, overflow_checks)
    /\ UNCHANGED <<overflow_checks, container_size, input, nf, genVars, mainVars>>

FirstFitReturn ==
    /\ nf.status # "running"
    /\ ff.status = "running"
    /\ ff.pos = Len(input)
    /\ ff' = [ff EXCEPT !.status = "returned"]
    /\ UNCHANGED <<overflow_checks, container_size, input, nf, genVars, mainVars>>

NextSolve == NextFitStep \/ NextFitReturn \/ FirstFitStep \/ FirstFitReturn

SpecSolve == InitSolve /\ [][NextSolve]_vars

\* The solve calls on the inputs whose items each fit an empty container.
InitSolveFitting ==
    /\ overflow_checks \in BOOLEAN
    /\ container_size \in ContainerSizes
    /\ input \in {[i \in DOMAIN q |-> Item(q[i])] :
                    q \in SeqsUpTo({x \in ItemSizes : x <= container_size},
                                   MaxFittingItems)}
    /\ nf = NextFitStart(container_size)
    /\ ff = FirstFitStart(container_size)
    /\ GenIdle
    /\ MainIdle

SpecSolveFitting == InitSolveFitting /\ [][NextSolve]_vars


------------------------------------------------------------------------------
\* Settings { item_size_min, item_size_max, item_limit, container_size }
Settings(lo, hi, limit, size) ==
    [item_size_min |-> lo, item_size_max |-> hi,
     item_limit |-> limit, container_size |-> size]

\* The invariant the specification puts on a Settings value.
ValidSettings(st) ==
    /\ st.item_size_min < st.item_size_max
    /\ st.item_size_max <= st.container_size
    /\ st.container_size > 0

\* Generator::generate at its entry; n is the loop variable (items made).
GenerateStart ==
    [status |-> "running", n |-> 0, current_size |-> 0, containers |-> 0,
     items |-> <<>>]

\* One pass of the body of `for n in 0..item_limit` of Generator::generate,
\* drawn being the value of gen_range(item_size_min..item_size_max).  The
\* additions of lines 105 and 117 and the subtraction of line 109 are u32
\* operations; the remainder of line 117 panics on a zero container_size.
GenerateDraw(g, drawn, st, checks) ==
    LET containers == IF g.current_size = 0 THEN g.containers + 1 ELSE g.containers
        sum     == g.current_size + drawn
        forced  == (sum % Modulus) > st.container_size
                   \/ g.n = st.item_limit - 1
        free    == st.container_size - g.current_size
        size    == IF forced THEN free % Modulus ELSE drawn
        placed  == g.current_size + size
    IN  IF sum >= Modulus /\ checks
        THEN [g EXCEPT !.status = "panic_overflow", !.containers = containers]
        ELSE IF forced /\ free < 0 /\ checks
        THEN [g EXCEPT !.status = "panic_overflow", !.containers = containers]
        ELSE IF placed >= Modulus /\ checks
        THEN [g EXCEPT !.status = "panic_overflow", !.containers = containers]
        ELSE IF st.container_size = 0
        THEN [g EXCEPT !.status = "panic_div_zero", !.containers = containers]
        ELSE [g EXCEPT !.n = @ + 1,
                       !.containers = containers,
                       !.items = Append(@, Item(size)),
                       !.current_size = (placed % Modulus) % st.container_size]

\* The permutations of 1..n, for items.shuffle.
ShuffleOrders(n) ==
    {p \in [1 .. n -> 1 .. n] : \A i, j \in 1 .. n : p[i] = p[j] => i = j}

Shuffled(items, p) == [i \in DOMAIN items |-> items[p[i]]]

\* GeneratorResults { items, optimal_container_count }
GeneratorResults(g, p) ==
    [items |-> Shuffled(g.items, p), optimal_container_count |-> g.containers]

------------------------------------------------------------------------------
\* The generate call, item by item.

\* The size fields tried: the small sizes and the largest value of the word.
GenSizes == (0 .. MaxGenSize) \cup {Modulus - 1}

GenSettings ==
    {Settings(lo, hi, limit, size) :
        lo \in GenSizes, hi \in GenSizes,
        limit \in 0 .. MaxItemLimit, size \in GenSizes}

InitGen ==
    /\ overflow_checks \in BOOLEAN
    /\ settings \in GenSettings
    /\ gen = GenerateStart
    /\ SolveIdle
    /\ MainIdle

\* gen_range panics on an empty range.
GenerateEmptyRange ==
    /\ gen.status = "running"
    /\ gen.n < settings.item_limit
    /\ settings.item_size_min >= settings.item_size_max
    /\ gen' = [gen EXCEPT !.status = "panic_empty_range",
                          !.containers = IF gen.current_size = 0 THEN @ + 1 ELSE @]
    /\ UNCHANGED <<overflow_checks, settings, solveVars, mainVars>>

GenerateStep ==
    /\ gen.status = "running"
    /\ gen.n < settings.item_limit
    /\ \E drawn \in settings.item_size_min .. (settings.item_size_max - 1) :
           gen' = GenerateDraw(gen, drawn, settings, overflow_checks)
    /\ UNCHANGED <<overflow_checks, settings, solveVars, mainVars>>

\* items.shuffle and the return of GeneratorResults.
GenerateReturn ==
    /\ gen.status = "running"
    /\ gen.n = settings.item_limit
    /\ \E p \in ShuffleOrders(Len(gen.items)) :
           gen' = [status |-> "returned", n |-> gen.n,
                   current_size |-> gen.current_size,
                   containers |-> gen.containers,
                   items |-> gen.items,
                   results |-> GeneratorResults(gen, p)]
    /\ UNCHANGED <<overflow_checks, settings, solveVars, mainVars>>

NextGen == GenerateEmptyRange \/ GenerateStep \/ GenerateReturn

SpecGen == InitGen /\ [][NextGen]_vars

------------------------------------------------------------------------------
\* The numbers of a ProblemResult.  A finite value is kept as a reduced
\* fraction num/den; "max" is the MAX of its type (f32::MAX, u128::MAX),
\* "inf" is f32 +infinity and "nan" an f32 NaN.  Finite f32 arithmetic is
\* kept exact: the rounding of f32 operations is not part of the model.

RECURSIVE GCD(_, _)
GCD(a, b) == IF b = 0 THEN a ELSE GCD(b, a % b)

Abs(n) == IF n < 0 THEN -n ELSE n

Finite(n, d) ==
    LET g == GCD(Abs(n), d)
    IN  [kind |-> "finite", num |-> n \div g, den |-> d \div g]

TypeMax == [kind |-> "max", num |-> 0, den |-> 1]
Infinity == [kind |-> "inf", num |-> 0, den |-> 1]
NotANumber == [kind |-> "nan", num |-> 0, den |-> 1]

\* x < y for values that are not NaN; every finite value of the model is
\* below the MAX of its type, which is below +infinity.
Rank(x) == IF x.kind = "finite" THEN 0 ELSE IF x.kind = "max" THEN 1 ELSE 2

Less(x, y) ==
    IF x.kind = "finite" /\ y.kind = "finite"
    THEN x.num * y.den < y.num * x.den
    ELSE Rank(x) < Rank(y)

\* f32::min, cmp::min: x.min(y).  f32::min returns the other operand when
\* one is NaN.
Min(x, y) ==
    IF x.kind = "nan" THEN y
    ELSE IF y.kind = "nan" THEN x
    ELSE IF Less(y, x) THEN y ELSE x

\* f32::max, cmp::max
Max(x, y) ==
    IF x.kind = "nan" THEN y
    ELSE IF y.kind = "nan" THEN x
    ELSE IF Less(x, y) THEN y ELSE x

\* a as f32 / b as f32 for unsigned a and b
Quotient(a, b) ==
    IF b # 0 THEN Finite(a, b)
    ELSE IF a = 0 THEN NotANumber ELSE Infinity

\* avg += (sample - avg) / count as f32, for count >= 1 and an avg that is
\* not below zero: inf - inf is NaN, and so is inf + (-inf).
MeanUpdate(avg, sample, count) ==
    IF avg.kind = "nan" \/ sample.kind = "nan" THEN NotANumber
    ELSE IF avg.kind = "inf" THEN NotANumber
    ELSE IF sample.kind = "inf" THEN Infinity
    ELSE Finite(avg.num * sample.den * count
                    + (sample.num * avg.den - avg.num * sample.den),
                avg.den * sample.den * count)

------------------------------------------------------------------------------
\* The solve calls as main makes them: the loop run to its end.

RECURSIVE NextFitRun(_, _, _, _)
NextFitRun(s, items, size, checks) ==
    IF s.status # "running" THEN s
    ELSE IF s.pos = Len(items) THEN [s EXCEPT !.status = "returned"]
    ELSE NextFitRun(NextFitPlace(s, items[s.pos + 1], size, checks),
                    items, size, checks)

RECURSIVE FirstFitRun(_, _, _, _)
FirstFitRun(s, items, size, checks) ==
    IF s.status # "running" THEN s
    ELSE IF s.pos = Len(items) THEN [s EXCEPT !.status = "returned"]
    ELSE FirstFitRun(FirstFitPlace(s, items[s.pos + 1], size, checks),
                     items, size, checks)

\* generate_solver: the solver made for an id, "None" for an unknown id.
GenerateSolver(id) ==
    IF id = "Next Fit" THEN "Next Fit"
    ELSE IF id = "First Fit" THEN "First Fit"
    ELSE "None"

\* solver.solve(items) through the dyn Solver
Solve(solver, items, size, checks) ==
    IF solver = "Next Fit"
    THEN NextFitRun(NextFitStart(size), items, size, checks)
    ELSE FirstFitRun(FirstFitStart(size), items, size, checks)

\* items_copy.sort_unstable_by_key(|x| x.size); items_copy.reverse()
RECURSIVE SortDescending(_)
SortDescending(items) ==
    IF items = <<>> THEN <<>>
    ELSE LET top == CHOOSE i \in DOMAIN items :
                        \A j \in DOMAIN items : items[j].size <= items[i].size
             rest == [k \in 1 .. (Len(items) - 1) |->
                         IF k < top THEN items[k] ELSE items[k + 1]]
         IN  <<items[top]>> \o SortDescending(rest)

\* generator.generate() run to the end of its loop: the states the loop can
\* end in, over every outcome of the draws.
RECURSIVE GenerateRun(_, _, _)
GenerateRun(g, st, checks) ==
    IF g.status # "running" \/ g.n >= st.item_limit THEN {g}
    ELSE IF st.item_size_min >= st.item_size_max
    THEN {[g EXCEPT !.status = "panic_empty_range"]}
    ELSE UNION {GenerateRun(GenerateDraw(g, drawn, st, checks), st, checks) :
                   drawn \in st.item_size_min .. (st.item_size_max - 1)}

------------------------------------------------------------------------------
\* main

\* ProblemResult::default()
ProblemResultDefault ==
    [solver_name |-> "", solver_sorted |-> FALSE,
     item_size_min |-> 0, item_size_max |-> 0, item_limit |-> 0,
     container_size |-> 0,
     iterations |-> 0, optimal_solutions_found |-> 0,
     quality_best_case |-> Finite(0, 1),
     quality_worst_case |-> Finite(0, 1),
     quality_avg_case |-> Finite(0, 1),
     time_us_best_case |-> Finite(0, 1),
     time_us_worst_case |-> Finite(0, 1),
     time_us_avg_case |-> Finite(0, 1)]

\* The ProblemResult a cell is set to when its iterations is 0.
ProblemResultFirst(solver, sorted, st) ==
    [solver_name |-> solver, solver_sorted |-> sorted,
     item_size_min |-> st.item_size_min, item_size_max |-> st.item_size_max,
     item_limit |-> st.item_limit,
     container_size |-> st.container_size,
     iterations |-> 0, optimal_solutions_found |-> 0,
     quality_best_case |-> TypeMax,
     quality_worst_case |-> Finite(0, 1),
     quality_avg_case |-> Finite(0, 1),
     time_us_best_case |-> TypeMax,
     time_us_worst_case |-> Finite(0, 1),
     time_us_avg_case |-> Finite(0, 1)]

\* Lines 329-340: one sample folded into a cell.
Fold(cell, quality, elapsed_us) ==
    LET count == cell.iterations + 1
        time  == Finite(elapsed_us, 1)
    IN  [cell EXCEPT
            !.iterations = count,
            !.optimal_solutions_found =
                IF quality = Finite(1, 1) THEN @ + 1 ELSE @,
            !.quality_avg_case = MeanUpdate(@, quality, count),
            !.quality_worst_case = Max(@, quality),
            !.quality_best_case = Min(@, quality),
            !.time_us_avg_case = MeanUpdate(@, time, count),
            !.time_us_worst_case = Max(@, time),
            !.time_us_best_case = Min(@, time)]

SolversLength == Len(program_input.solvers)
SettingsLength == Len(program_input.settings)

\* Where the run is once iteration it of scenario sn is to begin: the
\* iteration's generate, the next scenario's first iteration, or the
\* printing of the results when the outer loop is over.
RECURSIVE EnterIteration(_, _)
EnterIteration(sn, it) ==
    IF sn >= SettingsLength
    THEN [pc |-> "print", settings_n |-> sn, iteration |-> 0]
    ELSE IF it < program_input.iterations
    THEN [pc |-> "generate", settings_n |-> sn, iteration |-> it]
    ELSE EnterIteration(sn + 1, 0)

SolverListItems ==
    {[id |-> id, sorted |-> sorted] :
        id \in {"Next Fit", "First Fit", "Best Fit"}, sorted \in BOOLEAN}

RunSettings ==
    {Settings(lo, hi, limit, size) :
        lo \in 0 .. MaxRunSize, hi \in 0 .. MaxRunSize,
        limit \in 0 .. MaxRunLimit, size \in 1 .. MaxRunSize}

ProgramInputs ==
    [solvers : SeqsUpTo(SolverListItems, MaxSolvers),
     settings : SeqsUpTo({st \in RunSettings : ValidSettings(st)}, MaxScenarios),
     iterations : 0 .. MaxIterations]

InitMain ==
    /\ overflow_checks \in BOOLEAN
    /\ program_input \in ProgramInputs
    /\ results = [i \in 1 .. (SettingsLength * SolversLength) |-> ProblemResultDefault]
    /\ history = [i \in 1 .. (SettingsLength * SolversLength) |-> <<>>]
    /\ LET e == EnterIteration(0, 0)
       IN  pc = e.pc /\ settings_n = e.settings_n /\ iteration = e.iteration
    /\ solver_n = 0
    /\ generator_results = <<>>
    /\ output = <<>>
    /\ SolveIdle
    /\ GenIdle

\* Line 283: generator.generate(), and the entry of the solvers loop.
MainGenerate ==
    /\ pc = "generate"
    /\ \E g \in GenerateRun(GenerateStart, program_input.settings[settings_n + 1],
                            overflow_checks) :
          IF g.status # "running"
          THEN /\ pc' = g.status
               /\ UNCHANGED <<settings_n, iteration, solver_n, generator_results>>
          ELSE /\ \E p \in ShuffleOrders(Len(g.items)) :
                      generator_results' = GeneratorResults(g, p)
               /\ solver_n' = 0
               /\ IF SolversLength > 0
                  THEN pc' = "solver" /\ UNCHANGED <<settings_n, iteration>>
                  ELSE LET e == EnterIteration(settings_n, iteration + 1)
                       IN  /\ pc' = e.pc
                           /\ settings_n' = e.settings_n
                           /\ iteration' = e.iteration
    /\ UNCHANGED <<overflow_checks, program_input, results, output, history,
                   solveVars, genVars>>

\* Lines 291-343: the body of the solvers loop for solver_n, and the step to
\* the next solver, iteration or scenario.
MainSolver ==
    /\ pc = "solver"
    /\ \E elapsed_us \in 0 .. MaxElapsed :
          LET st       == program_input.settings[settings_n + 1]
              item     == program_input.solvers[solver_n + 1]
              solver   == GenerateSolver(item.id)
              result_i == settings_n * SolversLength + solver_n + 1
              first    == IF results[result_i].iterations = 0
                          THEN ProblemResultFirst(solver, item.sorted, st)
                          ELSE results[result_i]
              items_copy == IF item.sorted
                            THEN SortDescending(generator_results.items)
                            ELSE generator_results.items
              solved   == Solve(solver, items_copy, st.container_size,
                                overflow_checks)
              quality  == Quotient(Len(solved.results),
                                   generator_results.optimal_container_count)
              e        == EnterIteration(settings_n, iteration + 1)
          IN  IF solver = "None"
              THEN /\ pc' = "panic_unknown_solver"
                   /\ UNCHANGED <<results, history, settings_n, iteration, solver_n>>
              ELSE IF solved.status # "returned"
              THEN /\ pc' = solved.status
                   /\ results' = [results EXCEPT ![result_i] = first]
                   /\ UNCHANGED <<history, settings_n, iteration, solver_n>>
              ELSE /\ results' = [results EXCEPT
                                     ![result_i] = Fold(first, quality, elapsed_us)]
                   /\ history' = [history EXCEPT ![result_i] =
                                     Append(@, [containers |-> Len(solved.results),
                                                optimal |-> generator_results.optimal_container_count,
                                                quality |-> quality,
                                                elapsed_us |-> elapsed_us])]
                   /\ IF solver_n + 1 < SolversLength
                      THEN /\ solver_n' = solver_n + 1
                           /\ UNCHANGED <<pc, settings_n, iteration>>
                      ELSE /\ pc' = e.pc
                           /\ settings_n' = e.settings_n
                           /\ iteration' = e.iteration
                           /\ UNCHANGED solver_n
    /\ UNCHANGED <<overflow_checks, program_input, generator_results, output,
                   solveVars, genVars>>

\* Lines 352-353: the results are serialised and printed.
MainPrint ==
    /\ pc = "print"
    /\ output' = results
    /\ pc' = "done"
    /\ UNCHANGED <<overflow_checks, program_input, results, settings_n,
                   iteration, solver_n, generator_results, history,
                   solveVars, genVars>>

NextMain == MainGenerate \/ MainSolver \/ MainPrint

SpecMain == InitMain /\ [][NextMain]_vars

------------------------------------------------------------------------------
\* What a container list holds.

RECURSIVE SumSizes(_)
SumSizes(items) ==
    IF items = <<>> THEN 0 ELSE items[1].size + SumSizes(Tail(items))

RECURSIVE AllItems(_)
AllItems(containers) ==
    IF containers = <<>> THEN <<>> ELSE containers[1].items \o AllItems(Tail(containers))

Sizes(items) == [i \in DOMAIN items |-> items[i].size]
Contents(containers) == [i \in DOMAIN containers |-> Sizes(containers[i].items)]

CountSize(items, v) == Cardinality({i \in DOMAIN items : items[i].size = v})

SameMultiset(a, b) ==
    /\ Len(a) = Len(b)
    /\ \A v \in ItemSizes : CountSize(a, v) = CountSize(b, v)

WithinCapacity(containers) ==
    \A i \in DOMAIN containers :
        /\ SumSizes(containers[i].items) <= container_size
        /\ containers[i].total = SumSizes(containers[i].items)

Oversized == \E i \in DOMAIN input : input[i].size > container_size

EachFitsEmpty == \A i \in DOMAIN input : input[i].size <= container_size

\* The item has enough free space in the container: the sizes it holds plus
\* the item's do not exceed its capacity.
Fits(c, item) == SumSizes(c.items) + item.size <= c.size

\* Some assignment of the items to k containers overfills none of them.
PacksInto(items, k, size) ==
    \E f \in [DOMAIN items -> 1 .. k] :
        \A b \in 1 .. k :
            SumSizes([i \in DOMAIN items |->
                         IF f[i] = b THEN items[i] ELSE Item(0)]) <= size

\* The least number of containers of the given size that hold the items
\* (one more than their number when an item fits no container).
MinContainers(items, size) ==
    IF \E k \in 0 .. Len(items) : PacksInto(items, k, size)
    THEN CHOOSE k \in 0 .. Len(items) :
             /\ PacksInto(items, k, size)
             /\ \A m \in 0 .. (k - 1) : ~PacksInto(items, m, size)
    ELSE Len(items) + 1

------------------------------------------------------------------------------
\* Claims about the generator, checked under SpecGen.

\* C3: for Settings with item_size_min < item_size_max <= container_size and
\* container_size > 0, the returned optimal_container_count is the exact
\* minimum number of containers for the returned items, the item sizes sum
\* to optimal_container_count * container_size less a remainder smaller
\* than container_size, and no item is larger than container_size.
C3_OptimalCountExact ==
    (ValidSettings(settings) /\ gen.status = "returned") =>
        LET r == gen.results
        IN  /\ \A i \in DOMAIN r.items : r.items[i].size <= settings.container_size
            /\ r.optimal_container_count
                   = MinContainers(r.items, settings.container_size)
            /\ \E rest \in 0 .. (settings.container_size - 1) :
                   SumSizes(r.items)
                       = r.optimal_container_count * settings.container_size - rest

------------------------------------------------------------------------------
\* Claims about the benchmark run, checked under SpecMain.

Cells == DOMAIN history

One == Finite(1, 1)

\* C4: every quality ratio folded into a cell is at least 1.0, and it is
\* exactly 1.0 if and only if the solver returned as many containers as the
\* generator reported optimal.
C4_QualityAtLeastOne ==
    \A c \in Cells : \A k \in DOMAIN history[c] :
        LET sample == history[c][k]
        IN  /\ sample.quality.kind # "nan"
            /\ ~Less(sample.quality, One)
            /\ sample.quality = One <=> sample.containers = sample.optimal

UnknownSolverListed ==
    \E i \in DOMAIN program_input.solvers :
        program_input.solvers[i].id \notin {"Next Fit", "First Fit"}

\* C5: when the solvers list names an unknown id, no solve has taken place
\* and no result cell has been touched, whatever the run has reached.
C5_UnknownSolverRejectedFirst ==
    UnknownSolverListed =>
        \A c \in Cells : history[c] = <<>> /\ results[c] = ProblemResultDefault

\* The batch values of a non-empty sequence of numbers none of which is NaN.
BatchMin(xs) ==
    xs[CHOOSE i \in DOMAIN xs : \A j \in DOMAIN xs : ~Less(xs[j], xs[i])]

BatchMax(xs) ==
    xs[CHOOSE i \in DOMAIN xs : \A j \in DOMAIN xs : ~Less(xs[i], xs[j])]

RECURSIVE SumNum(_, _)
SumNum(xs, den) ==
    IF xs = <<>> THEN 0
    ELSE xs[1].num * (den \div xs[1].den) + SumNum(Tail(xs), den)

RECURSIVE ProductDen(_)
ProductDen(xs) == IF xs = <<>> THEN 1 ELSE xs[1].den * ProductDen(Tail(xs))

BatchMean(xs) ==
    IF \E i \in DOMAIN xs : xs[i].kind = "inf"
    THEN Infinity
    ELSE Finite(SumNum(xs, ProductDen(xs)), ProductDen(xs) * Len(xs))

Qualities(c) == [k \in DOMAIN history[c] |-> history[c][k].quality]
Times(c) == [k \in DOMAIN history[c] |-> Finite(history[c][k].elapsed_us, 1)]

\* C10: a cell that has folded k >= 1 samples holds their batch values:
\* iterations = k, optimal_solutions_found = the number of samples of
\* quality 1.0, best = the least sample, worst = the greatest, average =
\* the arithmetic mean, for quality and for time.
C10_FoldEqualsBatch ==
    \A c \in Cells :
        history[c] # <<>> =>
            /\ results[c].iterations = Len(history[c])
            /\ results[c].optimal_solutions_found
                   = Cardinality({k \in DOMAIN history[c] : history[c][k].quality = One})
            /\ results[c].quality_best_case = BatchMin(Qualities(c))
            /\ results[c].quality_worst_case = BatchMax(Qualities(c))
            /\ results[c].quality_avg_case = BatchMean(Qualities(c))
            /\ results[c].time_us_best_case = BatchMin(Times(c))
            /\ results[c].time_us_worst_case = BatchMax(Times(c))
            /\ results[c].time_us_avg_case = BatchMean(Times(c))

------------------------------------------------------------------------------
\* Claims about the solvers, checked under SpecSolve.

\* C1: whenever Next-Fit or First-Fit solve returns normally, every returned
\* container holds items whose sizes sum to at most container_size, and its
\* running total equals that sum.
C1_NoOverflowCommitted ==
    /\ nf.status = "returned" => WithinCapacity(nf.results)
    /\ ff.status = "returned" => WithinCapacity(ff.results)

\* C2: the items in the containers of a solve call are, as a multiset,
\* exactly the items consumed so far; when the call has returned they are
\* the whole input: nothing is lost and nothing is duplicated.
C2_ItemsPreserved ==
    /\ SameMultiset(AllItems(nf.results), SubSeq(input, 1, nf.pos))
    /\ SameMultiset(AllItems(ff.results), SubSeq(input, 1, ff.pos))
    /\ nf.status = "returned" => SameMultiset(AllItems(nf.results), input)
    /\ ff.status = "returned" => SameMultiset(AllItems(ff.results), input)

\* Both calls returned on an input with a repeated size that needed more
\* than one container.
C2_Witness ==
    /\ nf.status = "returned"
    /\ ff.status = "returned"
    /\ Len(input) >= 3
    /\ input[1].size = input[3].size
    /\ Len(nf.results) >= 2
    /\ Len(ff.results) >= 2

\* C6: on an input holding an item larger than container_size neither solve
\* returns a container list, the item is never placed, and the only fatal
\* end is the unfittable-item panic.
C6_OversizedIsFatal ==
    Oversized =>
        /\ nf.status \in {"running", "panic_unfit"}
        /\ ff.status \in {"running", "panic_unfit"}
        /\ \A i \in DOMAIN AllItems(nf.results) :
               AllItems(nf.results)[i].size <= container_size
        /\ \A i \in DOMAIN AllItems(ff.results) :
               AllItems(ff.results)[i].size <= container_size

\* C7 (under SpecSolveFitting): on an input whose items each fit an empty
\* container, Next-Fit returns at least as many containers as First-Fit.
C7_NextFitAtLeastFirstFit ==
    (EachFitsEmpty /\ nf.status = "returned" /\ ff.status = "returned")
        => Len(nf.results) >= Len(ff.results)

Fixture == container_size = 10 /\ Sizes(input) = <<6, 3, 6>>

\* C8 as stated: with container_size 10 and items 6, 3, 6 First-Fit returns
\* the containers [6,3] and [6], and Next-Fit returns 3 containers.
C8_FixtureAsStated ==
    (Fixture /\ nf.status = "returned" /\ ff.status = "returned")
        => /\ Contents(ff.results) = << <<6, 3>>, <<6>> >>
           /\ Len(nf.results) = 3

\* C8 amended: with container_size 10 and items 6, 3, 6 First-Fit returns
\* the containers [6,3] and [6], and Next-Fit returns the same 2 containers.
C8_Fixture ==
    /\ (Fixture /\ ff.status = "returned")
           => Contents(ff.results) = << <<6, 3>>, <<6>> >>
    /\ (Fixture /\ nf.status = "returned")
           => Contents(nf.results) = << <<6, 3>>, <<6>> >>
    /\ Fixture => nf.status \in {"running", "returned"}
    /\ Fixture => ff.status \in {"running", "returned"}

\* Both solvers have returned on the fixture.
C8_Witness == Fixture /\ nf.status = "returned" /\ ff.status = "returned"

\* The index of the earliest-opened container with room for the item, 0 when
\* there is none.
EarliestFit(containers, item) ==
    IF \E i \in DOMAIN containers : Fits(containers[i], item)
    THEN CHOOSE i \in DOMAIN containers :
             /\ Fits(containers[i], item)
             /\ \A k \in 1 .. (i - 1) : ~Fits(containers[k], item)
    ELSE 0

\* C9: a First-Fit placement puts the item into the earliest-opened container
\* with enough free space, opens a new last container only when no opened
\* container has room, and changes no other container.
C9_FirstFitEarliest ==
    [][(FirstFitStep /\ ff'.pos = ff.pos + 1) =>
          LET item == input[ff.pos + 1]
              j    == EarliestFit(ff.results, item)
          IN  IF j > 0
              THEN ff'.results =
                       [ff.results EXCEPT ![j] = ContainerAdd(@, item, overflow_checks).container]
              ELSE ff'.results =
                       Append(ff.results, OpenContainer(item, container_size, overflow_checks).container)
      ]_vars

====
